---- MODULE Spec2Model ----
(***************************************************************************)
(* Image generation orchestration of server/tools/utils/                   *)
(* image_generation_core.py (generate_image_with_provider and the provider *)
(* registry), the datastore service it consults (server/services/          *)
(* db_service.py) and user registration (server/routers/auth_router.py).   *)
(* Every request is one coroutine; the code between two awaits runs        *)
(* without interruption.                                                   *)
(***************************************************************************)
EXTENDS Integers, Sequences, FiniteSets, TLC

\* ------------------------------------------------------------------ bounds
MaxReqs == 2        \* generate_image_with_provider calls during one run
NumUsers == 2       \* users that own a credit counter
MaxCredits == 1     \* largest credit balance a user starts a run with
MaxImages == 2      \* longest input_images list of a request
MaxRegs == 2        \* register_user calls during one run
MaxCreates == 1     \* create_user calls made on the service during one run

Reqs == 1..MaxReqs
Users == 1..NumUsers
Regs == 1..MaxRegs

\* ------------------------------------------------------------------ values
\* Optional[int]: None, or an integer.
NoneInt == [some |-> FALSE, val |-> 0]
SomeInt(n) == [some |-> TRUE, val |-> n]

\* Optional[list[str]]: None, or a list.
NoneList == [some |-> FALSE, list |-> <<>>]
SomeList(l) == [some |-> TRUE, list |-> l]

\* Python truth value of an Optional[int]: None and 0 are false.
TruthyInt(u) == u.some /\ u.val # 0

\* Python truth value of an Optional[list]: None and [] are false.
TruthyList(l) == l.some /\ Len(l.list) > 0

\* The caller-supplied image references a request may carry.
ImageRefs == {"a.png", "b.png"}

RECURSIVE SeqsUpTo(_, _)
SeqsUpTo(S, n) ==
    IF n = 0 THEN {<<>>}
    ELSE LET shorter == SeqsUpTo(S, n - 1)
         IN  shorter \cup {Append(s, x) : s \in {t \in shorter : Len(t) = n - 1}, x \in S}

\* Inputs of generate_image_with_provider that the model enumerates.
UserIdInputs == {NoneInt} \cup {SomeInt(n) : n \in 0..NumUsers}
ProviderInputs == {"openai", "midjourney"}
ImageInputs == {NoneList} \cup {SomeList(l) : l \in SeqsUpTo(ImageRefs, MaxImages)}

\* ------------------------------------------------------------------ registry
\* Variant: the dict literal repeats the key "volces" for the last entry, so
\* the later entry replaces the earlier one and "wavespeed" is never a key.
IMAGE_PROVIDERS_repeated_key ==
    [n \in {"jaaz", "openai", "replicate", "volces"} |->
        CASE n = "jaaz" -> "JaazImageProvider"
          [] n = "openai" -> "OpenAIImageProvider"
          [] n = "replicate" -> "ReplicateImageProvider"
          [] n = "volces" -> "WavespeedProvider"]

\* IMAGE_PROVIDERS, lines 26-32: provider name -> provider instance.
IMAGE_PROVIDERS ==
    [n \in {"jaaz", "openai", "replicate", "volces", "wavespeed"} |->
        CASE n = "jaaz" -> "JaazImageProvider"
          [] n = "openai" -> "OpenAIImageProvider"
          [] n = "replicate" -> "ReplicateImageProvider"
          [] n = "volces" -> "VolcesProvider"
          [] n = "wavespeed" -> "WavespeedProvider"]

\* ------------------------------------------------------------------ collaborators
\* What the collaborators that generate_image_with_provider imports would do
\* during a run if they were called: the references process_input_image
\* cannot read, whether a provider's generate returns or raises, whether
\* save_image_to_canvas returns or raises.
WorldInputs ==
    [unreadable : SUBSET ImageRefs, generate : {"returns", "raises"}, save : {"returns", "raises"}]

\* save_image_to_canvas: the path under which a stored artifact is served.
ImageUrl(filename) == <<"/api/file/", filename>>

\* ------------------------------------------------------------------ datastore
\* The attributes of the DatabaseService instance that are methods
\* (db_service.py lines 36-167).
DatabaseService ==
    {"create_user", "get_user_by_id", "get_user_by_username", "get_user_by_email",
     "get_user_api_keys", "update_user_api_keys", "create_canvas", "list_canvases",
     "get_canvas_data", "save_canvas_data", "rename_canvas", "delete_canvas",
     "get_chat_history", "list_sessions", "create_chat_session", "create_message",
     "create_comfy_workflow", "list_comfy_workflows", "get_comfy_workflow",
     "delete_comfy_workflow"}

\* `obj.name`: the attribute is found, or the lookup raises AttributeError.
HasAttr(obj, name) == name \in obj

\* The username and the email of the n-th account.
Username(n) == <<"user", n>>
Email(n) == <<"user", n, "@example.com">>

\* The users table at the start of a run: one row per user that owns a
\* credit counter (the credits column is the variable `credits`).
UsersTable ==
    [u \in Users |-> [id |-> u, username |-> Username(u), email |-> Email(u), role |-> "user"]]

\* Inputs of register_user and create_user that the model enumerates: the
\* names and emails of the existing accounts, and one of each that no
\* account has.
UsernameInputs == {Username(n) : n \in 1..(NumUsers + 1)}
EmailInputs == {Email(n) : n \in 1..(NumUsers + 1)}

\* The credits register_user reports for a new user (line 91).
DefaultCredits == 10

\* The rows of the table with the username.
SelectByUsername(table, username) ==
    {table[i] : i \in {j \in DOMAIN table : table[j].username = username}}

\* .maybe_single().execute() of a select, as the client library may answer:
\* a response carrying the one matching row; for no matching row a response
\* without data or, depending on the library's version, None; for several
\* matching rows an error or a response carrying one of them.
NoRow == <<>>
MaybeSingle(rows) ==
    IF rows = {}
    THEN {[kind |-> "response", data |-> NoRow], [kind |-> "none", data |-> NoRow]}
    ELSE {[kind |-> "response", data |-> <<row>>] : row \in rows}
            \cup (IF Cardinality(rows) > 1 THEN {[kind |-> "error", data |-> NoRow]} ELSE {})

\* DatabaseService.get_user_by_username, lines 56-58, a plain (not async)
\* method: what a call may come to, one result per answer of the client.
\* Reading `.data` of None raises AttributeError.
get_user_by_username(table, username) ==
    {CASE answer.kind = "response" -> [raises |-> "", value |-> answer.data]
       [] answer.kind = "none" -> [raises |-> "AttributeError", value |-> NoRow]
       [] answer.kind = "error" -> [raises |-> "APIError", value |-> NoRow]
     : answer \in MaybeSingle(SelectByUsername(table, username))}

\* `await v` on the value a plain method returned: a dict and None are not
\* awaitable, the expression raises TypeError.
AwaitPlainValue(v) == "TypeError"

\* ------------------------------------------------------------------ orchestrator decisions
\* Variant: the user id is not looked at.
AuthPasses_unchecked(user_id) == TRUE

\* line 49: `if not user_id` raises 401.
AuthPasses(user_id) == TruthyInt(user_id)

\* line 96: the success string, as the parts it is formatted from.
DEFAULT_PORT == "DEFAULT_PORT"
SuccessResponse(filename, image_url) ==
    <<"image generated successfully ![image_id: ", filename,
      "](http://localhost:", DEFAULT_PORT>> \o image_url \o <<")">>

\* ------------------------------------------------------------------ state
VARIABLES
    credits,        \* the datastore's per-user credit counter
    credits0,       \* the counters at the start of the run
    world,          \* what the imported collaborators would do if called
    registry,       \* IMAGE_PROVIDERS as the process holds it
    pc,             \* per request: where its coroutine is
    req,            \* per request: its arguments
    can_generate,   \* per request: the gate's answer (FALSE while there is none)
    outcome,        \* per request: how the call ended
    response,       \* per request: the string returned
    steps,          \* per request: the steps started, in order
    gate_calls,     \* per request: calls made to check_and_update_credits
    generate_calls, \* per request: the calls made to a provider's generate
    save_calls,     \* per request: calls made to save_image_to_canvas
    canvas_records, \* the artifact records the canvas store holds
    users,          \* the rows of the datastore's users table
    reg,            \* per register_user call: its arguments, position and outcome
    create_log      \* per create_user call made on the service: the id returned (0: it raised)

vars == <<credits, credits0, world, registry, pc, req, can_generate, outcome, response, steps,
          gate_calls, generate_calls, save_calls, canvas_records, users, reg, create_log>>

NoRegistration ==
    [pc |-> "idle", username |-> <<>>, email |-> <<>>, outcome |-> "none",
     credits |-> 0, created |-> FALSE]

NoRequest == [user_id |-> NoneInt, provider |-> "", input_images |-> NoneList]

Init ==
    /\ credits \in [Users -> 0..MaxCredits]
    /\ credits0 = credits
    /\ world \in WorldInputs
    /\ registry = IMAGE_PROVIDERS
    /\ pc = [r \in Reqs |-> "idle"]
    /\ req = [r \in Reqs |-> NoRequest]
    /\ can_generate = [r \in Reqs |-> FALSE]
    /\ outcome = [r \in Reqs |-> "none"]
    /\ response = [r \in Reqs |-> <<>>]
    /\ steps = [r \in Reqs |-> <<>>]
    /\ gate_calls = [r \in Reqs |-> 0]
    /\ generate_calls = [r \in Reqs |-> <<>>]
    /\ save_calls = [r \in Reqs |-> 0]
    /\ canvas_records = <<>>
    /\ users = UsersTable
    /\ reg = [k \in Regs |-> NoRegistration]
    /\ create_log = <<>>

\* ------------------------------------------------------------------ generation
\* The coroutine ends by raising `exc`.
Raise(r, exc) ==
    /\ pc' = [pc EXCEPT ![r] = "done"]
    /\ outcome' = [outcome EXCEPT ![r] = exc]

\* Variant: the credit gate is looked up before the user id is checked.
Enter_gate_first(r, user_id, provider, input_images) ==
    /\ pc[r] = "idle"
    /\ \A q \in Reqs : q < r => pc[q] # "idle"
    /\ req' = [req EXCEPT ![r] = [user_id |-> user_id, provider |-> provider,
                                  input_images |-> input_images]]
    /\ Raise(r, "AttributeError")
    /\ steps' = [steps EXCEPT ![r] = <<"admission">>]
    /\ UNCHANGED <<credits, credits0, world, registry, can_generate, response, gate_calls,
                   generate_calls, save_calls, canvas_records, users, reg, create_log>>

\* generate_image_with_provider, lines 49-53: a call arrives (calls are
\* numbered in the order they arrive).  Line 49 rejects a falsy user id with
\* 401.  Line 53 evaluates db_service.check_and_update_credits: the
\* attribute lookup on the DatabaseService instance raises AttributeError,
\* so no call is made and nothing is awaited; the coroutine ends there.
\* Were the attribute found, the call would be made and the coroutine would
\* suspend on it.
Enter(r, user_id, provider, input_images) ==
    /\ pc[r] = "idle"
    /\ \A q \in Reqs : q < r => pc[q] # "idle"
    /\ req' = [req EXCEPT ![r] = [user_id |-> user_id, provider |-> provider,
                                  input_images |-> input_images]]
    /\ IF ~AuthPasses(user_id)
       THEN /\ Raise(r, "HTTPException_401")
            /\ steps' = [steps EXCEPT ![r] = <<"auth">>]
            /\ UNCHANGED gate_calls
       ELSE IF ~HasAttr(DatabaseService, "check_and_update_credits")
       THEN /\ Raise(r, "AttributeError")
            /\ steps' = [steps EXCEPT ![r] = <<"auth", "admission">>]
            /\ UNCHANGED gate_calls
       ELSE /\ pc' = [pc EXCEPT ![r] = "await_gate"]
            /\ steps' = [steps EXCEPT ![r] = <<"auth", "admission">>]
            /\ gate_calls' = [gate_calls EXCEPT ![r] = @ + 1]
            /\ UNCHANGED outcome
    /\ UNCHANGED <<credits, credits0, world, registry, can_generate, response,
                   generate_calls, save_calls, canvas_records, users, reg, create_log>>

Next ==
    \E r \in Reqs, u \in UserIdInputs, p \in ProviderInputs, i \in ImageInputs :
        Enter(r, u, p, i)

Spec == Init /\ [][Next]_vars

\* ------------------------------------------------------------------ registration
\* register_user, line 78: get_user_by_username runs its select; either it
\* raises (the client answered None, or an error) or it returns the row or
\* None, and the `await` applied to that value raises TypeError.  Lines
\* 79-91 are not reached: no row is created and no User is returned.  Calls
\* are numbered in the order they arrive.
RegisterUser(k, username, email) ==
    /\ reg[k].pc = "idle"
    /\ \A j \in Regs : j < k => reg[j].pc # "idle"
    /\ \E db_user_by_username \in get_user_by_username(users, username) :
         reg' = [reg EXCEPT ![k] =
                    [pc |-> "done", username |-> username, email |-> email,
                     outcome |-> IF db_user_by_username.raises # ""
                                 THEN db_user_by_username.raises
                                 ELSE AwaitPlainValue(db_user_by_username.value),
                     credits |-> 0, created |-> FALSE]]
    /\ UNCHANGED <<credits, credits0, world, registry, pc, req, can_generate, outcome, response,
                   steps, gate_calls, generate_calls, save_calls, canvas_records, users,
                   create_log>>

\* DatabaseService.create_user, lines 36-50, called on the service: the row
\* (username, email, hashed_password, role) is inserted with no check of the
\* rows the table holds and with no credits column written; the new id is
\* returned when the insert's response carries data, and an exception is
\* raised when it carries none (the row may or may not have been stored).
CreateUser(username, email, has_data, stored) ==
    /\ Len(create_log) < MaxCreates
    /\ LET id == Len(users) + 1
           row == [id |-> id, username |-> username, email |-> email, role |-> "user"]
       IN  /\ users' = IF has_data \/ stored THEN Append(users, row) ELSE users
           /\ create_log' = Append(create_log, IF has_data THEN id ELSE 0)
    /\ UNCHANGED <<credits, credits0, world, registry, pc, req, can_generate, outcome, response,
                   steps, gate_calls, generate_calls, save_calls, canvas_records, reg>>

NextRegister ==
    \/ \E k \in Regs, username \in UsernameInputs, email \in EmailInputs :
            RegisterUser(k, username, email)
    \/ \E username \in UsernameInputs, email \in EmailInputs, has_data, stored \in BOOLEAN :
            CreateUser(username, email, has_data, stored)

SpecRegister == Init /\ [][NextRegister]_vars

\* ================================================================== properties
\* Request r has ended.
Ended(r) == pc[r] = "done"

\* The user whose counter request r is charged to.
UserOf(r) == req[r].user_id.val

\* Request r carries the id of a user that owns a credit counter.
HasAccount(r) == req[r].user_id \in {SomeInt(u) : u \in Users}

\* Request r is the first request of a user who starts the run with credit.
Funded(r) ==
    /\ HasAccount(r)
    /\ credits0[UserOf(r)] > 0
    /\ \A q \in Reqs : q < r => req[q].user_id # req[r].user_id

\* Request r names a provider of the registry.
Known(r) == req[r].provider \in DOMAIN IMAGE_PROVIDERS

\* The canvas records request r caused.
RecordsOf(r) == {i \in DOMAIN canvas_records : canvas_records[i].request = r}

\* Request r went no further than the credit gate.
NothingAfterGate(r) ==
    /\ generate_calls[r] = <<>>
    /\ save_calls[r] = 0
    /\ RecordsOf(r) = {}
    /\ response[r] = <<>>

\* The steps of one request, in the order of the code.
StepOrder == <<"auth", "admission", "resolve", "preprocess", "dispatch", "persist", "respond">>

IsPrefix(s, t) == Len(s) <= Len(t) /\ \A i \in 1..Len(s) : s[i] = t[i]

\* Request r has started the step.
Started(r, step) == \E i \in DOMAIN steps[r] : steps[r][i] = step

\* C1 as stated: for a user whose counter starts at N > 0, no more than N of
\* the user's gate calls are admitted, and once more than N were made exactly
\* N of them were admitted.
C1_AsStated ==
    \A u \in Users :
        credits0[u] > 0 =>
            LET made == {r \in Reqs : Ended(r) /\ req[r].user_id = SomeInt(u)}
                admitted == {r \in made : can_generate[r]}
            IN  /\ Cardinality(admitted) <= credits0[u]
                /\ Cardinality(made) > credits0[u] => Cardinality(admitted) = credits0[u]

\* C2 as stated: a request for a user whose counter is at 0 is answered false
\* by the gate and ends with the 429 failure, with no preprocessing, provider
\* call or canvas save.
C2_AsStated ==
    \A r \in Reqs :
        (Ended(r) /\ HasAccount(r) /\ credits[UserOf(r)] = 0) =>
            /\ gate_calls[r] = 1
            /\ ~can_generate[r]
            /\ outcome[r] = "HTTPException_429"
            /\ NothingAfterGate(r)

\* C4: the steps of a request start in the order auth, admission, resolve,
\* preprocess, dispatch, persist, respond, none twice, and each one only after
\* the earlier ones succeeded: admission only for a user id that passed the
\* check, a later step only after the gate admitted the request, the response
\* only as the last step.
C4_StepsInOrder ==
    \A r \in Reqs :
        /\ IsPrefix(steps[r], StepOrder)
        /\ pc[r] # "idle" => Started(r, "auth")
        /\ Started(r, "admission") => req[r].user_id.some /\ req[r].user_id.val # 0
        /\ Started(r, "resolve") => can_generate[r] /\ gate_calls[r] = 1
        /\ Started(r, "dispatch") => Known(r)
        /\ Started(r, "persist") => Len(generate_calls[r]) = 1
        /\ outcome[r] = "success" <=> Started(r, "respond")

\* One request ended at the authentication check, and one that carried input
\* images went from the authentication check on to the credit admission.
C4_Witness ==
    \E r1, r2 \in Reqs :
        /\ Ended(r1) /\ steps[r1] = <<"auth">>
        /\ Ended(r2) /\ steps[r2] = <<"auth", "admission">>
        /\ TruthyList(req[r2].input_images)

\* C5 as stated: the first request of a user with credit that names a
\* provider the registry does not hold costs the user a credit and then fails
\* with the invalid-request failure (ValueError), without preprocessing,
\* provider call or canvas save.
C5_AsStated ==
    \A r \in Reqs :
        (Ended(r) /\ Funded(r) /\ ~Known(r)) =>
            /\ outcome[r] = "ValueError"
            /\ can_generate[r]
            /\ credits[UserOf(r)] < credits0[UserOf(r)]
            /\ NothingAfterGate(r)

\* C6 as stated: the first request of a user with credit, for a known
\* provider whose generate raises, ends with the provider's failure; the
\* provider was called once, the canvas save never, and the credit is spent.
C6_AsStated ==
    \A r \in Reqs :
        (Ended(r) /\ Funded(r) /\ Known(r) /\ world.generate = "raises") =>
            /\ outcome[r] = "ProviderFailure"
            /\ Len(generate_calls[r]) = 1
            /\ save_calls[r] = 0
            /\ RecordsOf(r) = {}
            /\ credits[UserOf(r)] < credits0[UserOf(r)]

\* C7 as stated: the first request of a user with credit, for a known
\* provider whose generate returns, ends with PersistenceFailure when the
\* canvas save raises: no success string, one provider call, one save call,
\* the credit spent.
C7_AsStated ==
    \A r \in Reqs :
        (/\ Ended(r) /\ Funded(r) /\ Known(r)
         /\ world.generate = "returns" /\ world.save = "raises") =>
            /\ outcome[r] = "PersistenceFailure"
            /\ outcome[r] # "ProviderFailure"
            /\ response[r] = <<>>
            /\ Len(generate_calls[r]) = 1
            /\ save_calls[r] = 1
            /\ credits[UserOf(r)] < credits0[UserOf(r)]

\* C8: a request without a user id ends at once with the 401 failure: the
\* gate is not called for it, no counter has changed, and it preprocesses
\* nothing, calls no provider and saves nothing.
C8_Unauthenticated ==
    \A r \in Reqs :
        (pc[r] # "idle" /\ ~req[r].user_id.some) =>
            /\ pc[r] = "done"
            /\ outcome[r] = "HTTPException_401"
            /\ steps[r] = <<"auth">>
            /\ gate_calls[r] = 0
            /\ ~can_generate[r]
            /\ NothingAfterGate(r)
            /\ credits = credits0

\* A request without a user id, naming a known provider and carrying input
\* images, was refused while a user still has the credit it started with.
C8_Witness ==
    \E r \in Reqs :
        /\ pc[r] = "done"
        /\ ~req[r].user_id.some
        /\ req[r].provider = "openai"
        /\ TruthyList(req[r].input_images)
        /\ outcome[r] = "HTTPException_401"
        /\ credits = credits0
        /\ \E u \in Users : credits[u] > 0

\* The payloads of the references process_input_image can read, in input order.
RECURSIVE KeptPayloads(_, _)
KeptPayloads(refs, unreadable) ==
    IF refs = <<>> THEN <<>>
    ELSE (IF Head(refs) \in unreadable THEN <<>> ELSE <<"data:" \o Head(refs)>>)
            \o KeptPayloads(Tail(refs), unreadable)

\* C10 as stated: for every list of input images of the first request of a
\* user with credit, for a known provider, the provider is handed the list
\* of the references that passed preprocessing, in input order.
C10_AsStated ==
    \A r \in Reqs :
        (Ended(r) /\ Funded(r) /\ Known(r) /\ req[r].input_images.some) =>
            /\ generate_calls[r] # <<>>
            /\ generate_calls[r][1].input_images.some
            /\ generate_calls[r][1].input_images.list
                    = KeptPayloads(req[r].input_images.list, world.unreadable)

\* C11 as stated: the first request of a user with credit, for a known
\* provider, has the provider's generate called however many of its input
\* images cannot be read; when none can, the provider is handed no image.
C11_AsStated ==
    \A r \in Reqs :
        (Ended(r) /\ Funded(r) /\ Known(r)) =>
            /\ Len(generate_calls[r]) = 1
            /\ outcome[r] \notin {"HTTPException_401", "HTTPException_429", "ValueError"}
            /\ (\A i \in DOMAIN req[r].input_images.list :
                    req[r].input_images.list[i] \in world.unreadable) =>
                        generate_calls[r][1].input_images.list = <<>>

\* The five failure kinds: unauthenticated, quota-exhausted, unknown-provider,
\* provider-failure, persistence-failure.
FailureKinds ==
    {"HTTPException_401", "HTTPException_429", "ValueError", "ProviderFailure",
     "PersistenceFailure"}

\* C12 as stated: a request that ended without the success string ended with
\* one of the five failure kinds, which are pairwise different.
C12_AsStated ==
    /\ Cardinality(FailureKinds) = 5
    /\ \A r \in Reqs : (Ended(r) /\ response[r] = <<>>) => outcome[r] \in FailureKinds

\* C14: in every state, whatever requests have run (with or without input
\* images) and however they ended, the registry is the mapping built at
\* import: its five names are the keys, each name is one key with its own
\* provider instance, and no step of a request changes it.
C14_RegistryReadOnly ==
    /\ registry = IMAGE_PROVIDERS
    /\ DOMAIN registry = {"jaaz", "openai", "replicate", "volces", "wavespeed"}
    /\ Cardinality(DOMAIN registry) = 5
    /\ Cardinality({registry[n] : n \in DOMAIN registry}) = 5
    /\ registry["openai"] = "OpenAIImageProvider"
    /\ registry["wavespeed"] = "WavespeedProvider"

\* Two requests have ended, one refused for its user id and one that carried
\* input images and got past the check naming a provider of the registry,
\* and the registry is as built.
C14_Witness ==
    /\ registry = IMAGE_PROVIDERS
    /\ \E r1, r2 \in Reqs :
        /\ Ended(r1) /\ outcome[r1] = "HTTPException_401"
        /\ Ended(r2) /\ Started(r2, "admission") /\ req[r2].provider = "openai"
        /\ TruthyList(req[r2].input_images)

\* The rows of the table with the username.
RowsNamed(username) == {i \in DOMAIN users : users[i].username = username}

\* The call was made with a username and an email no account had.
FreshRegistration(k) ==
    /\ reg[k].pc = "done"
    /\ create_log = <<>>
    /\ \A i \in DOMAIN UsersTable :
            /\ UsersTable[i].username # reg[k].username
            /\ UsersTable[i].email # reg[k].email
    /\ \A j \in Regs : j < k =>
            /\ reg[j].username # reg[k].username
            /\ reg[j].email # reg[k].email

\* C15 as stated: a register_user call with a username and an email no
\* account has returns the new user with credits = 10, and the row it created
\* holds a counter of 10.
C15_AsStated ==
    \A k \in Regs :
        FreshRegistration(k) =>
            /\ reg[k].outcome = "User"
            /\ reg[k].created
            /\ reg[k].credits = DefaultCredits
            /\ \E i \in RowsNamed(reg[k].username) :
                    /\ users[i].email = reg[k].email
                    /\ users[i].id \in DOMAIN credits
                    /\ credits[users[i].id] = DefaultCredits

\* The artifact id a provider returns to request r.
ArtifactId(r) == r

\* C16 as stated: the first request of a user with 1 credit, for "openai",
\* without input images, with the provider and the canvas save returning,
\* ends with the success string built from the artifact id, the local base
\* URL with the configured port and the saved path; the credit is 0 and the
\* provider and the save were each called once.
C16_AsStated ==
    \A r \in Reqs :
        (/\ Ended(r) /\ Funded(r) /\ credits0[UserOf(r)] = 1
         /\ req[r].provider = "openai" /\ ~req[r].input_images.some
         /\ world.generate = "returns" /\ world.save = "returns") =>
            /\ outcome[r] = "success"
            /\ response[r] = SuccessResponse(ArtifactId(r), ImageUrl(ArtifactId(r)))
            /\ credits[UserOf(r)] = 0
            /\ Len(generate_calls[r]) = 1
            /\ save_calls[r] = 1

\* C17 as stated: a request that carries a user id, whatever its value, passes
\* the authentication step and goes on to the credit admission.
C17_AsStated ==
    \A r \in Reqs :
        (pc[r] # "idle" /\ req[r].user_id.some) =>
            /\ outcome[r] # "HTTPException_401"
            /\ Started(r, "admission")

\* C18 as stated, for a request that has ended: it ended with the success
\* response or with one of the five failures, and with the response exactly
\* when it succeeded.
C18_AsStated ==
    \A r \in Reqs :
        Ended(r) =>
            /\ outcome[r] \in FailureKinds \cup {"success"}
            /\ (outcome[r] = "success") <=> (response[r] # <<>>)

\* C20 as stated: the users that register_user calls created have pairwise
\* different usernames and emails, and a call for a username or an email that
\* an account already has ends with the 400 failure and creates no row.
C20_AsStated ==
    /\ \A j, k \in Regs :
            (j # k /\ reg[j].created /\ reg[k].created) =>
                reg[j].username # reg[k].username /\ reg[j].email # reg[k].email
    /\ \A k \in Regs :
            (/\ reg[k].pc = "done"
             /\ \E i \in DOMAIN UsersTable :
                    \/ UsersTable[i].username = reg[k].username
                    \/ UsersTable[i].email = reg[k].email) =>
                /\ reg[k].outcome = "HTTPException_400"
                /\ ~reg[k].created

====
